---- MODULE Spec2Model ----
(***************************************************************************)
(* Model of abakus/model.py: the step advancement Stelle.am and the salary *)
(* ledger OetvKosten.  Umlauts of the source are written ae, oe, ue.       *)
(***************************************************************************)
EXTENDS Integers, Sequences, FiniteSets, TLC

VARIABLES
    \* ---- one call of Stelle.am ----
    self,           \* the receiver: a Stelle
    datum,          \* the argument of am
    neueStufe,      \* local of am
    neuesSeit,      \* local of am
    naechstesSeit,  \* local of am
    pc,             \* position in am: "bereit", "while", "done", "raised"
    ergebnis,       \* what am returned (or the exception it raised)
    \* ---- one OetvKosten object ----
    gehaelter,      \* the dict self.gehaelter: key <<jahr, gus>> -> Gehalt
    aufruf,         \* the last method called (ledger, Gehalt.by) and its arguments
    ausgang         \* what that call returned or raised

varsStelle == <<self, datum, neueStufe, neuesSeit, naechstesSeit, pc, ergebnis>>
vars == <<self, datum, neueStufe, neuesSeit, naechstesSeit, pc, ergebnis,
          gehaelter, aufruf, ausgang>>

\* ------------------------------------------------------------------ bounds
\* first year a position may start in; positions start in ErstesJahr or the
\* year after it, so that one start year is a leap year
ErstesJahr == 2019
\* target dates range from the year before ErstesJahr to ErstesJahr + MaxSpanne
MaxSpanne == 16

\* ------------------------------------------------------- datetime.date
\* the exception date(...) raises for a day that does not exist
ValueError == [fehler |-> "ValueError"]

IstSchaltjahr(y) == y % 4 = 0 /\ (y % 100 # 0 \/ y % 400 = 0)

TageImMonat(y, m) ==
    IF m = 2 THEN (IF IstSchaltjahr(y) THEN 29 ELSE 28)
    ELSE IF m \in {4, 6, 9, 11} THEN 30 ELSE 31

\* the constructor date(year, month, day): a date, or ValueError
date(y, m, d) ==
    IF /\ y >= 1 /\ y <= 9999
       /\ m >= 1 /\ m <= 12
       /\ d >= 1 /\ d <= TageImMonat(y, m)
    THEN [year |-> y, month |-> m, day |-> d]
    ELSE ValueError

\* date.__le__: a <= b in calendar order
DatumLE(a, b) ==
    \/ a.year < b.year
    \/ a.year = b.year /\ a.month < b.month
    \/ a.year = b.year /\ a.month = b.month /\ a.day <= b.day

DatumLT(a, b) == DatumLE(a, b) /\ a # b

\* ---------------------------------------------------------------- Stufe
eins == 1
sechs == 6
Stufe == eins..sechs

jahre_sechsOhne(s) == IF s = sechs THEN 0 ELSE s
\* Stufe.__init__(self, jahre): the enum passes the member's value, so the
\* interval of a step in years is its ordinal
jahre(s) == s

naechste_ohneDeckel(s) == s + 1
naechste_zyklisch(s) == IF s < sechs THEN s + 1 ELSE eins
\* Stufe.naechste
naechste(s) == IF s < sechs THEN s + 1 ELSE s

\* Stufe.naechsterAufstieg
naechsterAufstieg(s, letzterAufstieg) ==
    date(letzterAufstieg.year + jahre(s), letzterAufstieg.month, letzterAufstieg.day)

\* ------------------------------------------------- Entgeltgruppe, GuS
E_10 == 10
E_13 == 13
Entgeltgruppe == {E_10, E_13}

GuS(g, s) == [gruppe |-> g, stufe |-> s]
AllGuS == {GuS(g, s) : g \in Entgeltgruppe, s \in Stufe}

\* --------------------------------------------------------------- Stelle
Stelle(gus, beginn) == [gus |-> gus, beginn |-> beginn]

\* line 111, the loop condition
SchleifenBedingung(n, d) == DatumLE(n, d)

\* line 116, the return expression
Rueckgabe_alterBeginn(s, stufe, seit) ==
    IF stufe = s.gus.stufe THEN s ELSE Stelle(GuS(s.gus.gruppe, stufe), s.beginn)
Rueckgabe(s, stufe, seit) ==
    IF stufe = s.gus.stufe THEN s ELSE Stelle(GuS(s.gus.gruppe, stufe), seit)

\* lines 111-116 as a function of the locals: the loop, then the return
RECURSIVE amSchleife(_, _, _, _, _)
amSchleife(s, stufe, seit, n, d) ==
    IF n = ValueError THEN ValueError
    ELSE IF SchleifenBedingung(n, d)
         THEN amSchleife(s, naechste(stufe), n,
                         naechsterAufstieg(naechste(stufe), n), d)
         ELSE Rueckgabe(s, stufe, seit)

\* Stelle.am as a function; a call on a raised exception propagates it
am(s, d) ==
    IF s = ValueError THEN ValueError
    ELSE amSchleife(s, s.gus.stufe, s.beginn,
                    naechsterAufstieg(s.gus.stufe, s.beginn), d)

\* ---------------------------------------------------------------- inputs
MonatTag == {<<1, 1>>, <<2, 28>>, <<2, 29>>, <<3, 1>>, <<12, 31>>}

Daten(jahre_) ==
    {date(y, md[1], md[2]) : y \in jahre_, md \in MonatTag} \ {ValueError}

BeginnDaten == Daten(ErstesJahr..(ErstesJahr + 1))
ZielDaten == Daten((ErstesJahr - 1)..(ErstesJahr + MaxSpanne))
Stellen == {Stelle(g, b) : g \in AllGuS, b \in BeginnDaten}

Keins == [art |-> "keins"]

\* ---------------------------------------------------------- Stelle.am
InitStelle ==
    /\ self \in Stellen
    /\ datum = Keins
    /\ neueStufe = Keins
    /\ neuesSeit = Keins
    /\ naechstesSeit = Keins
    /\ pc = "bereit"
    /\ ergebnis = Keins
    /\ gehaelter = <<>>
    /\ aufruf = Keins
    /\ ausgang = Keins

\* lines 108-110: the call, the locals, the first due date
amBeginn(d) ==
    /\ pc = "bereit"
    /\ datum' = d
    /\ neueStufe' = self.gus.stufe
    /\ neuesSeit' = self.beginn
    /\ naechstesSeit' = naechsterAufstieg(self.gus.stufe, self.beginn)
    /\ IF naechstesSeit' = ValueError
       THEN pc' = "raised" /\ ergebnis' = ValueError
       ELSE pc' = "while" /\ ergebnis' = ergebnis
    /\ UNCHANGED <<self, gehaelter, aufruf, ausgang>>

\* lines 111-114: one iteration of the loop
amDurchlauf ==
    /\ pc = "while"
    /\ SchleifenBedingung(naechstesSeit, datum)
    /\ neuesSeit' = naechstesSeit
    /\ neueStufe' = naechste(neueStufe)
    /\ naechstesSeit' = naechsterAufstieg(neueStufe', naechstesSeit)
    /\ IF naechstesSeit' = ValueError
       THEN pc' = "raised" /\ ergebnis' = ValueError
       ELSE pc' = "while" /\ ergebnis' = ergebnis
    /\ UNCHANGED <<self, datum, gehaelter, aufruf, ausgang>>

\* lines 111 and 116: the loop ends, am returns
amRueckgabe ==
    /\ pc = "while"
    /\ ~SchleifenBedingung(naechstesSeit, datum)
    /\ ergebnis' = Rueckgabe(self, neueStufe, neuesSeit)
    /\ pc' = "done"
    /\ UNCHANGED <<self, datum, neueStufe, neuesSeit, naechstesSeit,
                   gehaelter, aufruf, ausgang>>

NextStelle ==
    \/ \E d \in ZielDaten : amBeginn(d)
    \/ amDurchlauf
    \/ amRueckgabe

SpecStelle == InitStelle /\ [][NextStelle]_vars

\* am runs in one thread without suspension points: once called, the loop
\* and the return are executed
SpecStelleFair ==
    SpecStelle /\ WF_vars(amDurchlauf) /\ WF_vars(amRueckgabe)

\* ================================================= claims on Stelle.am
Fertig == pc = "done"
Beendet == pc \in {"done", "raised"}

\* the years of the steps von..(bis - 1) added up
RECURSIVE SummeJahre(_, _)
SummeJahre(von, bis) ==
    IF von >= bis THEN 0 ELSE jahre(von) + SummeJahre(von + 1, bis)

\* the day b moved by n years, as a calendar triple (not validated)
InJahren(b, n) == [year |-> b.year + n, month |-> b.month, day |-> b.day]

\* the date on which a position (step s since b) is due to enter step k
FaelligIn(s, b, k) == InJahren(b, SummeJahre(s, k))

\* k is the largest step in s..sechs whose due date is not after d
GroessteFaellige(s, b, d, k) ==
    /\ DatumLE(FaelligIn(s, b, k), d)
    /\ \A k2 \in (k + 1)..sechs : ~DatumLE(FaelligIn(s, b, k2), d)

\* the step a position (step s since b) is in on d: the largest step due by
\* d, and s itself when d is before b
ErwarteteStufe(s, b, d) ==
    IF DatumLT(d, b) THEN s
    ELSE CHOOSE k \in s..sechs : GroessteFaellige(s, b, d, k)

\* the day before a date
VorTag(t) ==
    IF t.day > 1 THEN [t EXCEPT !.day = t.day - 1]
    ELSE IF t.month > 1
         THEN [t EXCEPT !.month = t.month - 1,
                        !.day = TageImMonat(t.year, t.month - 1)]
         ELSE [year |-> t.year - 1, month |-> 12, day |-> 31]

\* C1: am is idempotent for a fixed target date: projecting the returned
\* position to the same date again returns that position, step and beginn
AmIdempotent == Fertig => am(ergebnis, datum) = ergebnis

\* C1 witness: a call that advanced to a step below the maximum returned
AmIdempotentZeuge ==
    /\ Fertig
    /\ ergebnis # self
    /\ ergebnis.gus.stufe < sechs
    /\ ergebnis.beginn # datum

\* C2: am is monotonic in the target date: an earlier target date never
\* gives a higher step than a later one
AmMonoton ==
    Fertig =>
        \A d1 \in ZielDaten :
            (DatumLE(d1, datum) /\ am(self, d1) # ValueError)
                => am(self, d1).gus.stufe <= ergebnis.gus.stufe

\* C2 witness: a call returned the maximum step, and an earlier target date
\* gives a step strictly in between
AmMonotonZeuge ==
    /\ Fertig
    /\ ergebnis.gus.stufe = sechs
    /\ \E d1 \in ZielDaten :
          /\ DatumLT(d1, datum)
          /\ am(self, d1) # ValueError
          /\ am(self, d1).gus.stufe > self.gus.stufe
          /\ am(self, d1).gus.stufe < sechs

MehrfachAufstiegErgebnis ==
    Fertig => ergebnis.gus.stufe =
                  ErwarteteStufe(self.gus.stufe, self.beginn, datum)

\* C3, one loop iteration: the step goes up by exactly one, and stays at
\* sechs once it is there
MehrfachAufstiegSchritt ==
    (pc = "while" /\ pc' # "done" /\ neuesSeit' # neuesSeit) =>
        /\ neueStufe' = (IF neueStufe < sechs THEN neueStufe + 1 ELSE sechs)
        /\ neueStufe' \in Stufe

BeginnIstLetzterAufstieg ==
    (Fertig /\ ergebnis # self) =>
        ergebnis.beginn =
            FaelligIn(self.gus.stufe, self.beginn, ergebnis.gus.stufe)

\* C5: the advancement boundary is inclusive: at the first due date D the
\* position is advanced exactly once with beginn D, the day before D it is
\* unchanged
GrenzeInklusiv ==
    (/\ Beendet
     /\ self.gus.stufe < sechs
     /\ datum = naechsterAufstieg(self.gus.stufe, self.beginn)) =>
        /\ ergebnis = Stelle(GuS(self.gus.gruppe, self.gus.stufe + 1), datum)
        /\ am(self, VorTag(datum)) = self

\* C6: a target date before beginn: the loop body never runs and am returns
\* the receiver itself
ZielVorBeginn ==
    (Beendet /\ DatumLT(datum, self.beginn)) =>
        /\ ergebnis = self
        /\ neueStufe = self.gus.stufe
        /\ neuesSeit = self.beginn

\* C12: naechsterAufstieg has no error conditions: every due date computed
\* in am is a date with the month and day of the last advancement and the
\* year increased by the interval of the step
AufstiegOhneFehler ==
    pc # "bereit" => naechstesSeit = InJahren(neuesSeit, jahre(neueStufe))

\* C13, one loop iteration, which applies naechste to neueStufe: below sechs
\* the ordinal goes up by exactly one; at sechs it stays sechs, and so does
\* a further application
NaechsteGesaettigtSchritt ==
    (pc = "while" /\ pc' # "done" /\ neuesSeit' # neuesSeit) =>
        /\ neueStufe < sechs => neueStufe' = neueStufe + 1
        /\ neueStufe = sechs =>
              (neueStufe' = sechs /\ naechste(neueStufe') = sechs)

\* C13: naechste is a saturating successor: one higher for the steps 1..5,
\* and sechs for sechs, without error
NaechsteGesaettigt == [][NaechsteGesaettigtSchritt]_vars

\* C13 witness: a call that started at fuenf has applied naechste to fuenf
\* and then to sechs
NaechsteGesaettigtZeuge ==
    /\ pc = "while"
    /\ self.gus.stufe = sechs - 1
    /\ neueStufe = sechs
    /\ neuesSeit # FaelligIn(self.gus.stufe, self.beginn, sechs)

\* C14: a position already at sechs: the loop ends at once, no iteration is
\* executed (the locals keep their first values), whatever the target date
SechsOhneDurchlauf ==
    (self.gus.stufe = sechs /\ pc # "bereit") =>
        /\ neueStufe = self.gus.stufe
        /\ neuesSeit = self.beginn

\* C15, one loop iteration that stays in the loop: the due date strictly
\* increases
FaelligkeitWaechstSchritt ==
    (pc = "while" /\ pc' = "while") => DatumLT(naechstesSeit, naechstesSeit')

\* C15: am terminates for every position and target date: every iteration
\* moves the due date on, and a call in the loop comes to its end
AmTerminiert ==
    /\ (pc = "while") ~> Beendet
    /\ [][FaelligkeitWaechstSchritt]_vars

\* C15 witness: a call that reached sechs and iterated further at sechs has
\* returned
AmTerminiertZeuge ==
    /\ Fertig
    /\ self.gus.stufe < sechs
    /\ neueStufe = sechs
    /\ neuesSeit # FaelligIn(self.gus.stufe, self.beginn, sechs)

\* C16, the result: the receiver itself, or a position of the same gruppe
\* with a higher step and a beginn after the receiver's and not after datum
ErgebnisFormStand ==
    Fertig =>
        \/ ergebnis = self
        \/ /\ ergebnis.gus.gruppe = self.gus.gruppe
           /\ ergebnis.gus.stufe > self.gus.stufe
           /\ DatumLT(self.beginn, ergebnis.beginn)
           /\ DatumLE(ergebnis.beginn, datum)

\* C16: am returns the receiver or a new position of the same gruppe with at
\* least one advancement and a beginn in (self.beginn, datum]; the receiver
\* is never modified
ErgebnisForm ==
    /\ []ErgebnisFormStand
    /\ [][self' = self]_vars

\* C16 witness: a new position, more than one step up, that began before
\* datum, was returned
ErgebnisFormZeuge ==
    /\ Fertig
    /\ ergebnis # self
    /\ ergebnis.gus.stufe > self.gus.stufe + 1
    /\ DatumLT(ergebnis.beginn, datum)

\* C17: projection composes: for every earlier date d1, projecting to d1 and
\* then to datum gives the position that projecting to datum gives
ProjektionKomponiert ==
    Fertig =>
        \A d1 \in ZielDaten :
            (DatumLE(d1, datum) /\ am(self, d1) # ValueError)
                => am(am(self, d1), datum) = ergebnis

\* ================================================================ Decimal
\* A non-negative decimal.Decimal is [koeff, exp]: the digits of its
\* coefficient, lowest digit first, and its exponent of ten.  Amounts of
\* money that are whole cents are kept as their number of cents.

\* the digits of the natural number n, lowest first (none for 0)
RECURSIVE Ziffern(_)
Ziffern(n) == IF n = 0 THEN <<>> ELSE <<n % 10>> \o Ziffern(n \div 10)

\* the natural number with the digits zs, lowest first
RECURSIVE WertVon(_)
WertVon(zs) == IF zs = <<>> THEN 0 ELSE Head(zs) + 10 * WertVon(Tail(zs))

Umgekehrt(zs) == [i \in 1..Len(zs) |-> zs[Len(zs) + 1 - i]]

\* zs without zeros at its high end
RECURSIVE OhneFuehrendeNullen(_)
OhneFuehrendeNullen(zs) ==
    IF zs = <<>> \/ zs[Len(zs)] # 0 THEN zs
    ELSE OhneFuehrendeNullen(SubSeq(zs, 1, Len(zs) - 1))

\* zs times the natural number c, plus a carry
RECURSIVE MalGanz(_, _, _)
MalGanz(zs, c, uebertrag) ==
    IF zs = <<>> THEN Ziffern(uebertrag)
    ELSE LET p == Head(zs) * c + uebertrag
         IN  <<p % 10>> \o MalGanz(Tail(zs), c, p \div 10)

\* zs plus one
RECURSIVE PlusEins(_)
PlusEins(zs) ==
    IF zs = <<>> THEN <<1>>
    ELSE IF Head(zs) < 9 THEN <<Head(zs) + 1>> \o Tail(zs)
         ELSE <<0>> \o PlusEins(Tail(zs))

\* the precision of the default decimal context, in significant digits
prec == 28

\* the context's rounding of an exact result to prec digits, ROUND_HALF_EVEN
KontextRundung(x) ==
    LET n == Len(x.koeff)
        k == n - prec
    IN  IF k <= 0 THEN x
        ELSE LET behalten == SubSeq(x.koeff, k + 1, n)
                 restNull == \A i \in 1..(k - 1) : x.koeff[i] = 0
                 auf == \/ x.koeff[k] > 5
                        \/ x.koeff[k] = 5 /\ (~restNull \/ behalten[1] % 2 = 1)
                 r == IF auf THEN PlusEins(behalten) ELSE behalten
             IN  IF Len(r) > prec
                 THEN [koeff |-> Tail(r), exp |-> x.exp + k + 1]
                 ELSE [koeff |-> r, exp |-> x.exp + k]

\* Decimal.__mul__ of an amount of cent whole cents and the Decimal z
DecimalMal(cent, z) ==
    KontextRundung([koeff |-> OhneFuehrendeNullen(MalGanz(z.koeff, cent, 0)),
                    exp |-> z.exp - 2])

RECURSIVE Zehnhoch(_)
Zehnhoch(n) == IF n = 0 THEN 1 ELSE 10 * Zehnhoch(n - 1)

ROUND_HALF_UP == "ROUND_HALF_UP"
ROUND_DOWN == "ROUND_DOWN"

\* whether the kept digits go up by one, given the first dropped digit
Aufrunden(rounding, ziffer) == rounding = ROUND_HALF_UP /\ ziffer >= 5

\* x.quantize(Decimal('.01'), rounding=rounding), as a number of whole cents
Quantisiere(x, rounding) ==
    LET k == (0 - 2) - x.exp
        n == Len(x.koeff)
    IN  IF k <= 0 THEN WertVon(x.koeff) * Zehnhoch(0 - k)
        ELSE IF k > n THEN 0
        ELSE WertVon(SubSeq(x.koeff, k + 1, n))
                 + (IF Aufrunden(rounding, x.koeff[k]) THEN 1 ELSE 0)

dec_abgeschnitten(x) == Quantisiere(x, ROUND_DOWN)
\* dec(euros) for a Decimal argument: Decimal(euros) is euros itself
dec(x) == Quantisiere(x, ROUND_HALF_UP)

\* ---------------------------------------------------------- OetvKosten
\* line 135: Decimal(1. + 0.3) is the exact value of the double nearest to
\* 1.3, which is 5854679515581645 / 2^52
zuschlag ==
    [koeff |-> Umgekehrt(<<1, 3, 0, 0, 0, 0, 0, 0, 0, 0, 0, 0, 0, 0, 0, 0, 0,
                           4, 4, 4, 0, 8, 9, 2, 0, 9, 8, 5, 0, 0, 6, 2, 6, 1,
                           6, 1, 6, 9, 4, 5, 2, 6, 6, 7, 2, 3, 6, 3, 2, 8, 1,
                           2, 5>>),
     exp |-> 0 - 52]

Gehalt(b, s) == [brutto |-> b, sonderzahlung |-> s]

AssertionError(jahr, gus, ist) ==
    [fehler |-> "AssertionError", jahr |-> jahr, gus |-> gus, ist |-> ist]
KeyError(key) == [fehler |-> "KeyError", key |-> key]
Wert(w) == [wert |-> w]
None == [wert |-> "None"]

\* ---------------------------------------------------------------- inputs
\* the width of the range of small gross amounts (in cents)
MaxBruttoBreite == 1
BruttoWerte == (5..(5 + MaxBruttoBreite)) \cup {300000}
SonderWerte == {0, 95}
Gehaelter == {Gehalt(b, s) : b \in BruttoWerte, s \in SonderWerte}
\* the keys the calls use: one pair, the same gus in the next year, and the
\* other gruppe in the same year
Schluessel ==
    {<<ErstesJahr, GuS(E_10, eins)>>,
     <<ErstesJahr + 1, GuS(E_10, eins)>>,
     <<ErstesJahr, GuS(E_13, eins)>>}

\* ------------------------------------------------------------- methods
InitKosten ==
    /\ gehaelter = <<>>
    /\ aufruf = Keins
    /\ ausgang = Keins
    /\ self = Keins
    /\ datum = Keins
    /\ neueStufe = Keins
    /\ neuesSeit = Keins
    /\ naechstesSeit = Keins
    /\ pc = "bereit"
    /\ ergebnis = Keins

Eintrag_vergisst(key, gehalt) == (key :> gehalt)
\* line 144, self.gehaelter[key] = gehalt: the dict with the item set
Eintrag(key, gehalt) == (key :> gehalt) @@ gehaelter

getitem_jahrEgal(key) ==
    IF \E k \in DOMAIN gehaelter : k[2] = key[2]
    THEN gehaelter[CHOOSE k \in DOMAIN gehaelter : k[2] = key[2]]
    ELSE KeyError(key)
\* lines 151 and 157, self.gehaelter[(jahr, gus)]: the item, or KeyError
getitem(key) ==
    IF key \in DOMAIN gehaelter THEN gehaelter[key] ELSE KeyError(key)

\* line 143, the assertion: whether mitGehalt may store under key
NochNichtGesetzt_immer(key) == TRUE
NochNichtGesetzt(key) == key \notin DOMAIN gehaelter

\* lines 137-144
mitGehalt(jahr, gus, gehalt) ==
    LET key == <<jahr, gus>>
    IN  /\ aufruf' = [op |-> "mitGehalt", key |-> key, gehalt |-> gehalt]
        /\ IF NochNichtGesetzt(key)
           THEN /\ gehaelter' = Eintrag(key, gehalt)
                /\ ausgang' = None
           ELSE /\ ausgang' = AssertionError(jahr, gus, gehaelter[key])
                /\ gehaelter' = gehaelter
        /\ UNCHANGED varsStelle

\* lines 146-151
summeMonatlich(jahr, gus) ==
    LET key == <<jahr, gus>>
        gehalt == getitem(key)
    IN  /\ aufruf' = [op |-> "summeMonatlich", key |-> key]
        /\ IF gehalt = KeyError(key)
           THEN ausgang' = gehalt
           ELSE ausgang' = Wert(dec(DecimalMal(gehalt.brutto, zuschlag)))
        /\ UNCHANGED gehaelter
        /\ UNCHANGED varsStelle

jahresSonderzahlung_mitZuschlag(gehalt) ==
    dec(DecimalMal(gehalt.sonderzahlung, zuschlag))
\* line 157, the value returned: the field of the stored Gehalt
jahresSonderzahlung(gehalt) == gehalt.sonderzahlung

\* lines 153-157
sonderzahlung(jahr, gus) ==
    LET key == <<jahr, gus>>
        gehalt == getitem(key)
    IN  /\ aufruf' = [op |-> "sonderzahlung", key |-> key]
        /\ IF gehalt = KeyError(key)
           THEN ausgang' = gehalt
           ELSE ausgang' = Wert(jahresSonderzahlung(gehalt))
        /\ UNCHANGED gehaelter
        /\ UNCHANGED varsStelle

NextKosten ==
    \/ \E k \in Schluessel, geh \in Gehaelter : mitGehalt(k[1], k[2], geh)
    \/ \E k \in Schluessel : summeMonatlich(k[1], k[2])
    \/ \E k \in Schluessel : sonderzahlung(k[1], k[2])

SpecKosten == InitKosten /\ [][NextKosten]_vars

\* ================================================ claims on OetvKosten
Abfragen == {"summeMonatlich", "sonderzahlung"}
Aufgerufen(ops) == aufruf # Keins /\ aufruf.op \in ops

\* C7, one step: a mitGehalt for a key that has an entry raises the
\* AssertionError that reports the existing entry, and the dict is unchanged
DoppeltAbgelehntSchritt ==
    (aufruf'.op = "mitGehalt" /\ aufruf'.key \in DOMAIN gehaelter) =>
        /\ ausgang' = AssertionError(aufruf'.key[1], aufruf'.key[2],
                                     gehaelter[aufruf'.key])
        /\ gehaelter' = gehaelter

\* C7: a duplicate mitGehalt is rejected with AssertionError and leaves the
\* ledger exactly as it was
DoppeltAbgelehnt == [][DoppeltAbgelehntSchritt]_vars

\* C7 witness: a mitGehalt with another Gehalt than the stored one was
\* rejected, and the stored one is still there
DoppeltAbgelehntZeuge ==
    /\ Aufgerufen({"mitGehalt"})
    /\ ausgang # None
    /\ aufruf.gehalt # gehaelter[aufruf.key]

\* C8, one step: every entry stays as it is, and a new entry is the Gehalt
\* of the mitGehalt call that made it
EinmalGeschriebenSchritt ==
    /\ \A k \in DOMAIN gehaelter :
          k \in DOMAIN gehaelter' /\ gehaelter'[k] = gehaelter[k]
    /\ \A k \in DOMAIN gehaelter' \ DOMAIN gehaelter :
          /\ aufruf' = [op |-> "mitGehalt", key |-> k, gehalt |-> gehaelter'[k]]
          /\ ausgang' = None

\* C8: write-once ledger: over any sequence of calls an entry keeps the value
\* of the first mitGehalt for its key; it is never changed and never removed
EinmalGeschrieben == [][EinmalGeschriebenSchritt]_vars

\* C8 witness: every key has an entry and a further mitGehalt has failed
EinmalGeschriebenZeuge ==
    /\ DOMAIN gehaelter = Schluessel
    /\ Aufgerufen({"mitGehalt"})
    /\ ausgang # None

\* C9, the result: a query for a key without an entry raises KeyError
FehlenderEintragErgebnis ==
    (Aufgerufen(Abfragen) /\ aufruf.key \notin DOMAIN gehaelter) =>
        ausgang = KeyError(aufruf.key)

\* C9, one step: a query inserts nothing
FehlenderEintragSchritt ==
    aufruf'.op \in Abfragen => gehaelter' = gehaelter

\* C9: summeMonatlich and sonderzahlung raise KeyError for a key without an
\* entry, whatever other entries exist, and insert nothing
FehlenderEintrag ==
    /\ []FehlenderEintragErgebnis
    /\ [][FehlenderEintragSchritt]_vars

\* C9 witness: KeyError for a key while the same gus has an entry in another
\* year and the other gus has an entry in the same year
FehlenderEintragZeuge ==
    /\ Aufgerufen(Abfragen)
    /\ aufruf.key = <<ErstesJahr, GuS(E_10, eins)>>
    /\ ausgang = KeyError(aufruf.key)
    /\ DOMAIN gehaelter = Schluessel \ {aufruf.key}

\* brutto cents times 1.30, rounded half-up to whole cents
MitZuschlagGerundet(brutto) == (13 * brutto + 5) \div 10

\* the amounts 0.00 .. RundungsBereich cents, on which the expression of
\* line 151 is compared with the rounded product
RundungsBereich == 2000

\* C10 on the expression of line 151 alone, for every brutto of the range
\* (it does not depend on the state, so it is evaluated in the first one)
SummeMonatlichBereich ==
    aufruf = Keins =>
        \A c \in 0..RundungsBereich :
            dec(DecimalMal(c, zuschlag)) = MitZuschlagGerundet(c)

\* C10: summeMonatlich returns the stored brutto times 1.30 rounded half-up
\* to whole cents, whatever the stored sonderzahlung; 3000.00 gives 3900.00
SummeMonatlichGerundet ==
    /\ SummeMonatlichBereich
    /\ (Aufgerufen({"summeMonatlich"}) /\ aufruf.key \in DOMAIN gehaelter) =>
          /\ ausgang = Wert(MitZuschlagGerundet(gehaelter[aufruf.key].brutto))
          /\ gehaelter[aufruf.key].brutto = 300000 => ausgang = Wert(390000)

\* C10 witness: a brutto whose product ends in exactly half a cent was
\* rounded up, with a sonderzahlung stored that is not zero
SummeMonatlichGerundetZeuge ==
    /\ Aufgerufen({"summeMonatlich"})
    /\ aufruf.key \in DOMAIN gehaelter
    /\ (13 * gehaelter[aufruf.key].brutto) % 10 = 5
    /\ gehaelter[aufruf.key].sonderzahlung # 0
    /\ ausgang = Wert((13 * gehaelter[aufruf.key].brutto) \div 10 + 1)

\* C11, the result: sonderzahlung returns the sonderzahlung of the entry
SonderzahlungErgebnis ==
    (Aufgerufen({"sonderzahlung"}) /\ aufruf.key \in DOMAIN gehaelter) =>
        ausgang = Wert(gehaelter[aufruf.key].sonderzahlung)

\* C11, one step: the sonderzahlung of an entry is the one given to the
\* mitGehalt that made the entry, and no later call changes it
SonderzahlungSchritt ==
    /\ \A k \in DOMAIN gehaelter' \ DOMAIN gehaelter :
          /\ aufruf'.op = "mitGehalt" /\ aufruf'.key = k
          /\ gehaelter'[k].sonderzahlung = aufruf'.gehalt.sonderzahlung
    /\ \A k \in DOMAIN gehaelter \cap DOMAIN gehaelter' :
          gehaelter'[k].sonderzahlung = gehaelter[k].sonderzahlung

\* C11: sonderzahlung returns exactly the amount stored by the successful
\* mitGehalt for the key, without surcharge or rounding, whatever other
\* entries were set before or after
SonderzahlungUnveraendert ==
    /\ []SonderzahlungErgebnis
    /\ [][SonderzahlungSchritt]_vars

\* C11 witness: sonderzahlung returned an amount that is not zero while the
\* two other keys hold entries with another sonderzahlung
SonderzahlungUnveraendertZeuge ==
    /\ Aufgerufen({"sonderzahlung"})
    /\ DOMAIN gehaelter = Schluessel
    /\ ausgang = Wert(95)
    /\ \A k \in Schluessel \ {aufruf.key} : gehaelter[k].sonderzahlung = 0

\* ============================================================ Gehalt.by
\* the Decimal with the digits zs, highest first, and the exponent e
Dezimal(zs, e) == [koeff |-> Umgekehrt(zs), exp |-> e]

\* the float literals handed to Gehalt.by, in thousandths of a euro
FloatLiterale == {15, 125, 1005, 1015, 2675, 4350, 70, 1000, 1234005, 3000000, 300}

\* Decimal(f) for the float f that the literal t / 1000 denotes: the exact
\* value of the double nearest to it
DecimalVonFloat(t) ==
    CASE
         t = 15 ->   \* 0.015
           Dezimal(<<1, 4, 9, 9, 9, 9, 9, 9, 9, 9, 9, 9, 9, 9, 9, 9, 9, 4,
                     4, 4, 8, 8, 8, 4, 8, 7, 6, 8, 7, 4, 2, 1, 7, 2, 9, 7,
                     8, 8, 1, 8, 4, 1, 6, 5, 9, 5, 4, 5, 8, 9, 8, 4, 3, 7,
                     5>>,
                   0 - 56)
      [] t = 125 ->   \* 0.125
           Dezimal(<<1, 2, 5>>,
                   0 - 3)
      [] t = 1005 ->   \* 1.005
           Dezimal(<<1, 0, 0, 4, 9, 9, 9, 9, 9, 9, 9, 9, 9, 9, 9, 9, 8, 9,
                     3, 4, 1, 8, 5, 8, 9, 6, 3, 5, 9, 8, 4, 9, 7, 2, 1, 1,
                     9, 3, 3, 1, 3, 5, 9, 8, 6, 3, 2, 8, 1, 2, 5>>,
                   0 - 50)
      [] t = 1015 ->   \* 1.015
           Dezimal(<<1, 0, 1, 4, 9, 9, 9, 9, 9, 9, 9, 9, 9, 9, 9, 9, 9, 0,
                     2, 3, 0, 0, 3, 7, 3, 8, 3, 2, 9, 8, 6, 2, 2, 4, 4, 4,
                     2, 7, 2, 0, 4, 1, 3, 2, 0, 8, 0, 0, 7, 8, 1, 2, 5>>,
                   0 - 52)
      [] t = 2675 ->   \* 2.675
           Dezimal(<<2, 6, 7, 4, 9, 9, 9, 9, 9, 9, 9, 9, 9, 9, 9, 9, 8, 2,
                     2, 3, 6, 4, 3, 1, 6, 0, 5, 9, 9, 7, 4, 9, 5, 3, 5, 3,
                     2, 2, 1, 8, 9, 3, 3, 1, 0, 5, 4, 6, 8, 7, 5>>,
                   0 - 50)
      [] t = 4350 ->   \* 4.35
           Dezimal(<<4, 3, 4, 9, 9, 9, 9, 9, 9, 9, 9, 9, 9, 9, 9, 9, 6, 4,
                     4, 7, 2, 8, 6, 3, 2, 1, 1, 9, 9, 4, 9, 9, 0, 7, 0, 6,
                     4, 4, 3, 7, 8, 6, 6, 2, 1, 0, 9, 3, 7, 5>>,
                   0 - 49)
      [] t = 70 ->   \* 0.07
           Dezimal(<<7, 0, 0, 0, 0, 0, 0, 0, 0, 0, 0, 0, 0, 0, 0, 0, 6, 6,
                     6, 1, 3, 3, 8, 1, 4, 7, 7, 5, 0, 9, 3, 9, 2, 4, 2, 5,
                     4, 1, 7, 9, 0, 0, 0, 8, 5, 4, 4, 9, 2, 1, 8, 7, 5>>,
                   0 - 54)
      [] t = 1000 ->   \* 1.0
           Dezimal(<<1>>,
                   0)
      [] t = 1234005 ->   \* 1234.005
           Dezimal(<<1, 2, 3, 4, 0, 0, 5, 0, 0, 0, 0, 0, 0, 0, 0, 0, 1, 0,
                     9, 1, 3, 9, 3, 6, 4, 2, 1, 2, 7, 5, 1, 3, 8, 8, 5, 4,
                     9, 8, 0, 4, 6, 8, 7, 5>>,
                   0 - 40)
      [] t = 3000000 ->   \* 3000.0
           Dezimal(<<3, 0, 0, 0>>,
                   0)
      [] t = 300 ->   \* 0.3
           Dezimal(<<2, 9, 9, 9, 9, 9, 9, 9, 9, 9, 9, 9, 9, 9, 9, 9, 8, 8,
                     8, 9, 7, 7, 6, 9, 7, 5, 3, 7, 4, 8, 4, 3, 4, 5, 9, 5,
                     7, 6, 3, 6, 8, 3, 3, 1, 9, 0, 9, 1, 7, 9, 6, 8, 7, 5>>,
                   0 - 54)

\* lines 56-58 with lines 119-120: Gehalt.by(b, s) for two floats
by(b, s) ==
    /\ aufruf' = [op |-> "by", b |-> b, s |-> s]
    /\ ausgang' = Wert(Gehalt(dec(DecimalVonFloat(b)), dec(DecimalVonFloat(s))))
    /\ UNCHANGED gehaelter
    /\ UNCHANGED varsStelle

InitGehalt ==
    /\ gehaelter = <<>>
    /\ aufruf = Keins
    /\ ausgang = Keins
    /\ self = Keins
    /\ datum = Keins
    /\ neueStufe = Keins
    /\ neuesSeit = Keins
    /\ naechstesSeit = Keins
    /\ pc = "bereit"
    /\ ergebnis = Keins

NextGehalt == \E b \in FloatLiterale, s \in FloatLiterale : by(b, s)

SpecGehalt == InitGehalt /\ [][NextGehalt]_vars

\* ============================================ claims on money arithmetic
\* x without zeros at its low end: equal numbers have equal normal forms
RECURSIVE Normalisiert(_)
Normalisiert(x) ==
    IF x.koeff # <<>> /\ Head(x.koeff) = 0
    THEN Normalisiert([koeff |-> Tail(x.koeff), exp |-> x.exp + 1])
    ELSE x

\* t thousandths of a euro rounded half-up to whole cents
HalbAufCent(t) == (t + 5) \div 10

\* C18: money is derived with exact decimal arithmetic only: the factor of
\* summeMonatlich is exactly the decimal 1.30, and Gehalt.by stores the
\* decimal value of its arguments rounded half-up to whole cents
NurExakteDezimalzahlen ==
    Aufgerufen({"by"}) =>
        /\ Normalisiert(zuschlag) = Dezimal(<<1, 3>>, 0 - 1)
        /\ ausgang = Wert(Gehalt(HalbAufCent(aufruf.b), HalbAufCent(aufruf.s)))

====
